---- MODULE Spec2Model ----
(***************************************************************************)
(* Point-in-time join of the Spark offline store                           *)
(* (feast_spark_offline_store/spark.py).                                   *)
(*                                                                         *)
(* A relation is a sequence of rows (the entity frame, where duplicate     *)
(* rows count) or a set of rows (where the query guarantees distinct       *)
(* rows); a row is a function from column names to values.  Timestamps     *)
(* are whole seconds after 2023-01-10 00:00:00.                            *)
(***************************************************************************)
EXTENDS Integers, Sequences, FiniteSets, TLC

(* Sizes of the tables the retrieval is run on. *)
MaxEntityRows == 2
MaxSourceRows == 2

(* Values the columns of the input tables take. *)
EntityKeys == {<<1, 12>>, <<11, 2>>}
EntityTimestamps == {2, 3}
EventTimestamps == {1, 2, 3}
CreatedTimestamps == {1, 2}
Ttls == {0, 1}

VARIABLES
    entity_df,           \* the caller's entity frame
    source,              \* the backend table the feature views read
    feature_views,       \* the query context: one record per feature view
    full_feature_names,  \* the flag of the retrieval
    conf,                \* the session: active or not, and its settings
    views,               \* the session's temporary views, name -> relation
    pc,                  \* where the caller is: "new", "planned", "after1", "after2", "done"
    prev,                \* how the job's previous materialization ended
    result,              \* what the last finished to_spark_df returned
    job2                 \* a second retrieval on the same session: its frame, pc and result

vars == <<entity_df, source, feature_views, full_feature_names, conf, views, pc, prev, result, job2>>
inputs == <<entity_df, source, feature_views, full_feature_names>>

NULL == "NULL"
NoResult == [columns |-> <<>>, rows |-> <<>>, returned |-> FALSE]
NoJob == [entity_df |-> <<>>, pc |-> "absent", result |-> NoResult]

----------------------------------------------------------------------------
(* Generic helpers on sequences, sets and rows. *)

Range(s) == {s[i] : i \in 1..Len(s)}

Max(S) == CHOOSE x \in S : \A y \in S : y <= x

Min(S) == CHOOSE x \in S : \A y \in S : x <= y

RECURSIVE SetToSeq(_)
SetToSeq(S) ==
    IF S = {} THEN <<>>
    ELSE LET x == CHOOSE y \in S : TRUE IN <<x>> \o SetToSeq(S \ {x})

RECURSIVE Flatten(_)
Flatten(ss) == IF ss = <<>> THEN <<>> ELSE Head(ss) \o Flatten(Tail(ss))

Project(row, cols) == [c \in cols |-> row[c]]

----------------------------------------------------------------------------
(* CAST(... AS STRING) and CONCAT. *)

Digits == <<"0", "1", "2", "3", "4", "5", "6", "7", "8", "9">>

RECURSIVE IntToString(_)
IntToString(n) ==
    IF n < 10 THEN Digits[n + 1]
    ELSE IntToString(n \div 10) \o Digits[(n % 10) + 1]

TimestampToString(t) ==
    "2023-01-10 00:00:" \o Digits[(t \div 10) + 1] \o Digits[(t % 10) + 1]

RECURSIVE Concat(_)
Concat(strs) == IF strs = <<>> THEN "" ELSE Head(strs) \o Concat(Tail(strs))

----------------------------------------------------------------------------
(* Names. *)

TableName == "feast_entity_df_1"
TableName2 == "feast_entity_df_2"
EntityDataframeName == "entity_dataframe"
SourceTableName == "features"
EntityDfColumns == <<"k1", "k2", "event_timestamp">>
EntityDfEventTimestampCol == "event_timestamp"
QuotedRegexKey == "spark.sql.parser.quotedRegexColumnNames"

BaseName(fv) == fv.name \o "__base"
IdCol(fv) == fv.name \o "__entity_row_unique_id"
FeatureCol(fv, f, ffn) == IF ffn THEN fv.name \o "__" \o f ELSE f

----------------------------------------------------------------------------
(* The session. *)

SparkConfOverlay == ("spark.master" :> "local[2]")

GetSparkSessionOrStartNew(c, spark_conf) ==
    LET session == IF c.active THEN c
                   ELSE [active |-> TRUE, settings |-> spark_conf]
    IN [session EXCEPT !.settings = (QuotedRegexKey :> "true") @@ @]

CreateOrReplaceTempView(catalog, name, rel) == (name :> rel) @@ catalog

(* Not the code: the upload also registers the frame as entity_dataframe. *)
UploadEntityDfEager(catalog, name, df) ==
    CreateOrReplaceTempView(
        CreateOrReplaceTempView(catalog, name, df), "entity_dataframe", df)

UploadEntityDf(catalog, name, df) == CreateOrReplaceTempView(catalog, name, df)

----------------------------------------------------------------------------
(* Statement 1: entity_dataframe. *)

EntityRowUniqueId(fv, row) ==
    Concat([i \in 1..Len(fv.entities) |-> IntToString(row[fv.entities[i]])])
        \o TimestampToString(row[EntityDfEventTimestampCol])

EntityDataframe(left, fvs) ==
    [i \in 1..Len(left) |->
        left[i]
        @@ ("entity_timestamp" :> left[i][EntityDfEventTimestampCol])
        @@ [c \in {IdCol(fvs[j]) : j \in 1..Len(fvs)} |->
               EntityRowUniqueId(
                   fvs[CHOOSE j \in 1..Len(fvs) : IdCol(fvs[j]) = c], left[i])]]

----------------------------------------------------------------------------
(* Statement 2: <view>__base, one per feature view. *)

HasCreated(fv) == fv.created_timestamp_column # ""

FeatureCols(fv, ffn) == {FeatureCol(fv, fv.features[i], ffn) : i \in 1..Len(fv.features)}

FvEntityDataframe(fv, edf) ==
    {Project(edf[i], Range(fv.entities) \cup {"entity_timestamp", IdCol(fv)}) :
        i \in 1..Len(edf)}

SubqueryRow(fv, s, ffn) ==
    ("event_timestamp" :> s[fv.event_timestamp_column])
    @@ (IF HasCreated(fv)
        THEN ("created_timestamp" :> s[fv.created_timestamp_column])
        ELSE <<>>)
    @@ [e \in Range(fv.entities) |-> s[e]]
    @@ [c \in FeatureCols(fv, ffn) |->
           s[CHOOSE f \in Range(fv.features) : FeatureCol(fv, f, ffn) = c]]

(* Not the code: MIN and MAX of entity_timestamp change places. *)
PrefilterSwapped(fv, t, edf) ==
    /\ edf # <<>>
    /\ t <= Min({edf[i]["entity_timestamp"] : i \in 1..Len(edf)})
    /\ \/ fv.ttl = 0
       \/ t >= Max({edf[i]["entity_timestamp"] : i \in 1..Len(edf)}) - fv.ttl

Prefilter(fv, t, edf) ==
    /\ edf # <<>>
    /\ t <= Max({edf[i]["entity_timestamp"] : i \in 1..Len(edf)})
    /\ \/ fv.ttl = 0
       \/ t >= Min({edf[i]["entity_timestamp"] : i \in 1..Len(edf)}) - fv.ttl

Subquery(fv, src, edf, ffn) ==
    {SubqueryRow(fv, src[i], ffn) :
        i \in {j \in 1..Len(src) : Prefilter(fv, src[j][fv.event_timestamp_column], edf)}}

RangeJoinCondition(fv, sq, e) ==
    /\ sq["event_timestamp"] <= e["entity_timestamp"]
    /\ \/ fv.ttl = 0
       \/ sq["event_timestamp"] >= e["entity_timestamp"] - fv.ttl
    /\ \A k \in Range(fv.entities) : sq[k] = e[k]

Base(fv, src, edf, ffn) ==
    {p[1] @@ ("entity_timestamp" :> p[2]["entity_timestamp"])
          @@ (IdCol(fv) :> p[2][IdCol(fv)]) :
        p \in {q \in Subquery(fv, src, edf, ffn) \X FvEntityDataframe(fv, edf) :
                  RangeJoinCondition(fv, q[1], q[2])}}

RECURSIVE CreateBaseViews(_, _, _, _, _)
CreateBaseViews(catalog, fvs, src, edf, ffn) ==
    IF fvs = <<>> THEN catalog
    ELSE CreateBaseViews(
             CreateOrReplaceTempView(catalog, BaseName(Head(fvs)),
                                     Base(Head(fvs), src, edf, ffn)),
             Tail(fvs), src, edf, ffn)

----------------------------------------------------------------------------
(* Statement 3: __dedup, __latest, __cleaned and the final select. *)

RowsOf(rel, fv, id) == {b \in rel : b[IdCol(fv)] = id}

(* Not the code: MIN(created_timestamp) in place of MAX. *)
DedupMin(fv, base) ==
    {(IdCol(fv) :> g[1]) @@ ("event_timestamp" :> g[2])
     @@ ("created_timestamp" :>
            Min({b["created_timestamp"] :
                   b \in {c \in RowsOf(base, fv, g[1]) : c["event_timestamp"] = g[2]}})) :
        g \in {<<b[IdCol(fv)], b["event_timestamp"]>> : b \in base}}

Dedup(fv, base) ==
    {(IdCol(fv) :> g[1]) @@ ("event_timestamp" :> g[2])
     @@ ("created_timestamp" :>
            Max({b["created_timestamp"] :
                   b \in {c \in RowsOf(base, fv, g[1]) : c["event_timestamp"] = g[2]}})) :
        g \in {<<b[IdCol(fv)], b["event_timestamp"]>> : b \in base}}

LatestJoin(fv, base) ==
    IF HasCreated(fv)
    THEN {b \in base : \E d \in Dedup(fv, base) :
             /\ d[IdCol(fv)] = b[IdCol(fv)]
             /\ d["event_timestamp"] = b["event_timestamp"]
             /\ d["created_timestamp"] = b["created_timestamp"]}
    ELSE base

Latest(fv, base) ==
    LET joined == LatestJoin(fv, base)
    IN {(IdCol(fv) :> id)
        @@ ("event_timestamp" :>
               Max({b["event_timestamp"] : b \in RowsOf(joined, fv, id)}))
        @@ (IF HasCreated(fv)
            THEN ("created_timestamp" :>
                     Max({b["created_timestamp"] : b \in RowsOf(joined, fv, id)}))
            ELSE <<>>) :
           id \in {b[IdCol(fv)] : b \in joined}}

Cleaned(fv, base) ==
    {b \in base : \E l \in Latest(fv, base) :
        /\ b[IdCol(fv)] = l[IdCol(fv)]
        /\ b["event_timestamp"] = l["event_timestamp"]
        /\ HasCreated(fv) => b["created_timestamp"] = l["created_timestamp"]}

Joined(fv, base, ffn) ==
    {Project(c, {IdCol(fv)} \cup FeatureCols(fv, ffn)) : c \in Cleaned(fv, base)}

NullFeatures(fv, ffn) == [c \in FeatureCols(fv, ffn) |-> NULL]

LeftJoin(rows, fv, joined, ffn) ==
    Flatten([i \in 1..Len(rows) |->
        LET matches == {j \in joined : j[IdCol(fv)] = rows[i][IdCol(fv)]}
        IN IF matches = {}
           THEN <<rows[i] @@ NullFeatures(fv, ffn)>>
           ELSE SetToSeq({rows[i] @@ j : j \in matches})])

RECURSIVE LeftJoinAll(_, _, _, _)
LeftJoinAll(rows, fvs, catalog, ffn) ==
    IF fvs = <<>> THEN rows
    ELSE LeftJoinAll(
             LeftJoin(rows, Head(fvs), Joined(Head(fvs), catalog[BaseName(Head(fvs))], ffn), ffn),
             Tail(fvs), catalog, ffn)

(* Columns of entity_dataframe, then of each <view>__joined, in order. *)
JoinColumns(cols, fvs, ffn) ==
    cols \o <<"entity_timestamp">>
         \o [j \in 1..Len(fvs) |-> IdCol(fvs[j])]
         \o Flatten([j \in 1..Len(fvs) |->
                <<IdCol(fvs[j])>>
                \o [i \in 1..Len(fvs[j].features) |->
                       FeatureCol(fvs[j], fvs[j].features[i], ffn)]])

IsPrefix(p, str) == Len(p) <= Len(str) /\ SubSeq(str, 1, Len(p)) = p

(* Not the code: `(a1|a2|...)?.+`, a greedy group that gives back what it took. *)
QuotedRegexMatchGreedy(alts, name) == Len(name) > 0

(* The quoted regex `(a1|a2|...)?+.+`: the group is possessive, so the first *)
(* alternative that is a prefix of the name is consumed for good, and `.+`  *)
(* needs at least one more character.                                       *)
QuotedRegexMatch(alts, name) ==
    LET hits == {i \in 1..Len(alts) : IsPrefix(alts[i], name)}
    IN IF hits = {} THEN Len(name) > 0
       ELSE Len(name) > Len(alts[Min(hits)])

HelperColumns(fvs) == <<"entity_timestamp">> \o [j \in 1..Len(fvs) |-> IdCol(fvs[j])]

FinalSelect(cols, fvs, catalog, ffn) ==
    LET joined == LeftJoinAll(catalog[EntityDataframeName], fvs, catalog, ffn)
        selected == SelectSeq(JoinColumns(cols, fvs, ffn),
                              LAMBDA c : QuotedRegexMatch(HelperColumns(fvs), c))
    IN [columns |-> selected,
        rows |-> [i \in 1..Len(joined) |-> Project(joined[i], Range(selected))],
        returned |-> TRUE]

----------------------------------------------------------------------------
(* The inputs of a retrieval.  SQL relations are unordered, so one ordering *)
(* of each input table is explored.  Each source row carries features that  *)
(* no other row has, which makes the row a feature came from recognisable.  *)

EntityRows ==
    {[k1 |-> k[1], k2 |-> k[2], event_timestamp |-> t] :
        k \in EntityKeys, t \in EntityTimestamps}

EntityRank(r) == (r.k1 * 100 + r.k2) * 10 + r.event_timestamp

EntityFrames ==
    UNION {{f \in [1..n -> EntityRows] :
               \A i \in 1..(n - 1) : EntityRank(f[i]) <= EntityRank(f[i + 1])} :
           n \in 0..MaxEntityRows}

SourceShapes ==
    {[k1 |-> k[1], k2 |-> k[2], ts |-> t, created |-> c] :
        k \in EntityKeys, t \in EventTimestamps, c \in CreatedTimestamps}

SourceRank(r) == ((r.k1 * 100 + r.k2) * 10 + r.ts) * 10 + r.created

SourceTables ==
    UNION {{[i \in 1..n |->
                f[i] @@ [val |-> "v" \o IntToString(i), amt |-> "a" \o IntToString(i)]] :
              f \in {g \in [1..n -> SourceShapes] :
                        \A i \in 1..(n - 1) : SourceRank(g[i]) <= SourceRank(g[i + 1])}} :
           n \in 0..MaxSourceRows}

FeatureView(name, entities, features, ttl, created) ==
    [name |-> name, entities |-> entities, features |-> features,
     event_timestamp_column |-> "ts",
     created_timestamp_column |-> IF created THEN "created" ELSE "",
     ttl |-> ttl, table_subquery |-> SourceTableName]

(* Two views over the same table: A keyed by (k1, k2), B keyed by k1.  The  *)
(* two are given opposite settings, so each setting is met by each view.    *)
FeatureViewLists ==
    {<<FeatureView("A", <<"k1", "k2">>, <<"val">>, t, c),
       FeatureView("B", <<"k1">>, <<"amt">>, CHOOSE u \in Ttls : u # t, ~c)>> :
        t \in Ttls, c \in BOOLEAN}

Sessions ==
    {[active |-> FALSE, settings |-> <<>>],
     [active |-> TRUE, settings |-> (QuotedRegexKey :> "false")]}

NoSession == [active |-> FALSE, settings |-> <<>>]

(* Every retrieval, run once in a fresh process. *)
InitJoin ==
    /\ entity_df \in EntityFrames
    /\ source \in SourceTables
    /\ feature_views \in FeatureViewLists
    /\ full_feature_names \in BOOLEAN
    /\ conf = NoSession
    /\ views = <<>>
    /\ pc = "new"
    /\ prev = "none"
    /\ result = NoResult
    /\ job2 = NoJob

(* One pair of views with full feature names, with or without a session    *)
(* already active, and a job that is materialized again and again, with    *)
(* failures.                                                                *)
Init ==
    /\ entity_df \in EntityFrames
    /\ source \in SourceTables
    /\ feature_views = <<FeatureView("A", <<"k1", "k2">>, <<"val">>, 1, TRUE),
                         FeatureView("B", <<"k1">>, <<"amt">>, 0, FALSE)>>
    /\ full_feature_names = TRUE
    /\ conf \in Sessions
    /\ views = <<>>
    /\ pc = "new"
    /\ prev = "none"
    /\ result = NoResult
    /\ job2 = NoJob

----------------------------------------------------------------------------
(* get_historical_features: acquires the session, uploads the entity frame  *)
(* under the job's table name and builds the query; the query is a function *)
(* of feature_views and full_feature_names, which the job keeps.            *)
GetHistoricalFeatures ==
    /\ pc = "new"
    /\ conf' = GetSparkSessionOrStartNew(conf, SparkConfOverlay)
    /\ views' = UploadEntityDf(views, TableName, entity_df)
    /\ pc' = "planned"
    /\ UNCHANGED <<inputs, job2, prev, result>>

(* Not the code: statement 1 adds its rows to an entity_dataframe that is   *)
(* already there instead of replacing it.                                   *)
Statement1Insert ==
    /\ pc \in {"planned", "done"}
    /\ views' = CreateOrReplaceTempView(views, EntityDataframeName,
                    (IF EntityDataframeName \in DOMAIN views
                     THEN views[EntityDataframeName] ELSE <<>>)
                    \o EntityDataframe(views[TableName], feature_views))
    /\ pc' = "after1"
    /\ prev' = IF pc = "done" THEN "ok" ELSE prev
    /\ result' = NoResult
    /\ UNCHANGED <<inputs, job2, conf>>

(* to_spark_df runs the three statements of the query in order.  The second *)
(* one is a single spark_session.sql call whose text holds one CREATE OR    *)
(* REPLACE TEMPORARY VIEW per feature view; they take effect in order.      *)
Statement1 ==
    /\ pc \in {"planned", "done"}
    /\ views' = CreateOrReplaceTempView(views, EntityDataframeName,
                    EntityDataframe(views[TableName], feature_views))
    /\ pc' = "after1"
    /\ prev' = IF pc = "done" THEN "ok" ELSE prev
    /\ result' = NoResult
    /\ UNCHANGED <<inputs, job2, conf>>

Statement2 ==
    /\ pc = "after1"
    /\ views' = CreateBaseViews(views, feature_views, source,
                                views[EntityDataframeName], full_feature_names)
    /\ pc' = "after2"
    /\ UNCHANGED <<inputs, job2, conf, prev, result>>

(* A temporary view keeps either the analyzed plan of its query, with the   *)
(* views it names resolved when it was created, or the text of its query,   *)
(* resolved again whenever the view is read; which one depends on the Spark *)
(* build.  Every retrieval writes the same text for <view>__base, and the   *)
(* text names entity_dataframe.                                             *)
ResolveViews(catalog, fvs, src, ffn, analyzed) ==
    IF analyzed THEN catalog
    ELSE CreateBaseViews(catalog, fvs, src, catalog[EntityDataframeName], ffn)

Statement3 ==
    /\ pc = "after2"
    /\ conf.settings[QuotedRegexKey] = "true"
    /\ \E analyzed \in BOOLEAN :
           result' = FinalSelect(EntityDfColumns, feature_views,
                                 ResolveViews(views, feature_views, source,
                                              full_feature_names, analyzed),
                                 full_feature_names)
    /\ pc' = "done"
    /\ UNCHANGED <<inputs, job2, conf, views, prev>>

(* The backend fails the statement to_spark_df is about to run: the error   *)
(* reaches the caller and the views created so far stay in the session.     *)
StatementFails ==
    /\ pc \in {"planned", "done", "after1", "after2"}
    /\ pc' = "planned"
    /\ prev' = "failed"
    /\ result' = NoResult
    /\ UNCHANGED <<inputs, job2, conf, views>>

(* Statement 2 fails part of the way: the <view>__base views of the first   *)
(* k feature views are in the session, the others are not (or are stale).   *)
Statement2FailsPartway ==
    /\ pc = "after1"
    /\ \E k \in 1..(Len(feature_views) - 1) :
           views' = CreateBaseViews(views, SubSeq(feature_views, 1, k), source,
                                    views[EntityDataframeName], full_feature_names)
    /\ pc' = "planned"
    /\ prev' = "failed"
    /\ result' = NoResult
    /\ UNCHANGED <<inputs, job2, conf>>

Next ==
    \/ GetHistoricalFeatures
    \/ Statement1
    \/ Statement2
    \/ Statement3
    \/ StatementFails
    \/ Statement2FailsPartway

Spec == Init /\ [][Next]_vars

NextJoin ==
    \/ GetHistoricalFeatures
    \/ pc = "planned" /\ Statement1
    \/ Statement2
    \/ Statement3

SpecJoin == InitJoin /\ [][NextJoin]_vars

----------------------------------------------------------------------------
(* Two retrievals on one session.  Each has its own uploaded table, named   *)
(* by get_temp_entity_table_name; both run the same statements, which       *)
(* create or replace the same entity_dataframe and <view>__base.            *)
InitTwoJobs ==
    /\ entity_df \in EntityFrames
    /\ source \in SourceTables
    /\ feature_views = <<FeatureView("A", <<"k1", "k2">>, <<"val">>, 1, TRUE),
                         FeatureView("B", <<"k1">>, <<"amt">>, 0, FALSE)>>
    /\ full_feature_names = TRUE
    /\ conf = NoSession
    /\ views = <<>>
    /\ pc = "new"
    /\ prev = "none"
    /\ result = NoResult
    /\ \E df \in EntityFrames \ {entity_df} :
           job2 = [entity_df |-> df, pc |-> "new", result |-> NoResult]

Job2GetHistoricalFeatures ==
    /\ job2.pc = "new"
    /\ conf' = GetSparkSessionOrStartNew(conf, SparkConfOverlay)
    /\ views' = UploadEntityDf(views, TableName2, job2.entity_df)
    /\ job2' = [job2 EXCEPT !.pc = "planned"]
    /\ UNCHANGED <<inputs, pc, prev, result>>

Job2Statement1 ==
    /\ job2.pc = "planned"
    /\ views' = CreateOrReplaceTempView(views, EntityDataframeName,
                    EntityDataframe(views[TableName2], feature_views))
    /\ job2' = [job2 EXCEPT !.pc = "after1"]
    /\ UNCHANGED <<inputs, conf, pc, prev, result>>

Job2Statement2 ==
    /\ job2.pc = "after1"
    /\ views' = CreateBaseViews(views, feature_views, source,
                                views[EntityDataframeName], full_feature_names)
    /\ job2' = [job2 EXCEPT !.pc = "after2"]
    /\ UNCHANGED <<inputs, conf, pc, prev, result>>

Job2Statement3 ==
    /\ job2.pc = "after2"
    /\ conf.settings[QuotedRegexKey] = "true"
    /\ \E analyzed \in BOOLEAN :
           job2' = [job2 EXCEPT
                       !.pc = "done",
                       !.result = FinalSelect(EntityDfColumns, feature_views,
                                      ResolveViews(views, feature_views, source,
                                                   full_feature_names, analyzed),
                                      full_feature_names)]
    /\ UNCHANGED <<inputs, conf, views, pc, prev, result>>

NextTwoJobs ==
    \/ GetHistoricalFeatures
    \/ pc = "planned" /\ Statement1
    \/ Statement2
    \/ Statement3
    \/ Job2GetHistoricalFeatures
    \/ Job2Statement1
    \/ Job2Statement2
    \/ Job2Statement3

SpecTwoJobs == InitTwoJobs /\ [][NextTwoJobs]_vars

(* The rows a materialization returns in a session that holds nothing but   *)
(* the uploaded entity frame.                                               *)
RunQuery(df, src, fvs, ffn) ==
    LET c0 == UploadEntityDf(<<>>, TableName, df)
        c1 == CreateOrReplaceTempView(c0, EntityDataframeName,
                                      EntityDataframe(c0[TableName], fvs))
        c2 == CreateBaseViews(c1, fvs, src, c1[EntityDataframeName], ffn)
    IN FinalSelect(EntityDfColumns, fvs, c2, ffn)


----------------------------------------------------------------------------
(* What the properties below talk about. *)

Returned == pc = "done" /\ result.returned

(* The source rows that hold value v of feature f. *)
SourceRowsWith(f, v) == {n \in 1..Len(source) : source[n][f] = v}

SameKeys(fv, s, e) == \A k \in Range(fv.entities) : s[k] = e[k]

(* Source row s is inside view fv's window for entity row e. *)
InWindow(fv, s, e) ==
    /\ s[fv.event_timestamp_column] <= e[EntityDfEventTimestampCol]
    /\ fv.ttl > 0 =>
           s[fv.event_timestamp_column] >= e[EntityDfEventTimestampCol] - fv.ttl

Views == Range(feature_views)

OutCol(fv, f) == FeatureCol(fv, f, full_feature_names)

OutputRows == Range(result.rows)

(* The candidates of output row o in view fv: the rows of <view>__base that *)
(* carry o's EntityRowUniqueId.                                             *)
Candidates(fv, o) == RowsOf(views[BaseName(fv)], fv, EntityRowUniqueId(fv, o))

----------------------------------------------------------------------------
(* C1 -- No-leakage: every non-null feature of view V in an output row is   *)
(* taken from a source row whose entity keys equal the output row's keys    *)
(* and whose event timestamp is not after the row's event timestamp.        *)
C1_NoLeakage ==
    Returned =>
        \A o \in OutputRows : \A fv \in Views : \A f \in Range(fv.features) :
            o[OutCol(fv, f)] # NULL =>
                \E n \in SourceRowsWith(f, o[OutCol(fv, f)]) :
                    /\ SameKeys(fv, source[n], o)
                    /\ source[n][fv.event_timestamp_column] <= o[EntityDfEventTimestampCol]

(* C2 -- TTL exclusion: with a TTL D > 0 a contributing source row is not   *)
(* older than the entity timestamp minus D, and an entity row whose key has *)
(* no source row inside [ts - D, ts] gets null; with TTL 0 every source row *)
(* of the key at or before the entity timestamp is a candidate.             *)
C2_TtlExclusion ==
    Returned =>
        \A o \in OutputRows : \A fv \in Views : \A f \in Range(fv.features) :
            /\ (fv.ttl > 0 /\ o[OutCol(fv, f)] # NULL) =>
                   \A n \in SourceRowsWith(f, o[OutCol(fv, f)]) :
                       source[n][fv.event_timestamp_column]
                           >= o[EntityDfEventTimestampCol] - fv.ttl
            /\ (fv.ttl > 0 /\ ~ \E n \in 1..Len(source) :
                                   SameKeys(fv, source[n], o) /\ InWindow(fv, source[n], o)) =>
                   o[OutCol(fv, f)] = NULL
            /\ fv.ttl = 0 =>
                   \A n \in 1..Len(source) :
                       (/\ SameKeys(fv, source[n], o)
                        /\ source[n][fv.event_timestamp_column] <= o[EntityDfEventTimestampCol]) =>
                           \E b \in Candidates(fv, o) : b[OutCol(fv, f)] = source[n][f]

(* C3 -- Latest selection: an entity row with at least one candidate gets   *)
(* its features from a candidate that carries the greatest event timestamp  *)
(* of all its candidates, and they are not left null.                       *)
C3_LatestSelection ==
    Returned =>
        \A o \in OutputRows : \A fv \in Views : \A f \in Range(fv.features) :
            Candidates(fv, o) # {} =>
                /\ o[OutCol(fv, f)] # NULL
                /\ \E b \in Candidates(fv, o) :
                       /\ b[OutCol(fv, f)] = o[OutCol(fv, f)]
                       /\ b["event_timestamp"] =
                              Max({c["event_timestamp"] : c \in Candidates(fv, o)})

(* C7 -- EntityRowUniqueId is unique within a view: two entity rows that    *)
(* differ in one of the view's keys or in the event timestamp get different *)
(* ids.                                                                     *)
C7_UniqueIds ==
    EntityDataframeName \in DOMAIN views =>
        LET edf == views[EntityDataframeName]
        IN \A i, j \in 1..Len(edf) : \A fv \in Views :
               (\/ ~SameKeys(fv, edf[i], edf[j])
                \/ edf[i][EntityDfEventTimestampCol] # edf[j][EntityDfEventTimestampCol]) =>
                   edf[i][IdCol(fv)] # edf[j][IdCol(fv)]


(* C4 -- Tie-break: in a view with a created-timestamp column, of the       *)
(* candidates of one EntityRowUniqueId that share an event timestamp the    *)
(* one kept is the one with the greatest created timestamp, and one with a  *)
(* smaller created timestamp never reaches the output.                      *)
C4_TieBreak ==
    Returned =>
        \A fv \in Views : HasCreated(fv) =>
            LET base == views[BaseName(fv)]
                SameGroup(b, c) == /\ b[IdCol(fv)] = c[IdCol(fv)]
                                   /\ b["event_timestamp"] = c["event_timestamp"]
            IN /\ \A b \in base : \E r \in LatestJoin(fv, base) : SameGroup(b, r)
               /\ \A r \in LatestJoin(fv, base) \cup Cleaned(fv, base) : \A b \in base :
                      SameGroup(b, r) => b["created_timestamp"] <= r["created_timestamp"]
               /\ \A o \in OutputRows : \A f \in Range(fv.features) :
                      \A b, c \in Candidates(fv, o) :
                          (b[OutCol(fv, f)] = o[OutCol(fv, f)] /\ SameGroup(b, c)) =>
                              c["created_timestamp"] <= b["created_timestamp"]

C4_Witness ==
    /\ Returned
    /\ \E fv \in Views : \E o \in OutputRows : \E b, c \in Candidates(fv, o) :
           /\ HasCreated(fv)
           /\ b["event_timestamp"] = c["event_timestamp"]
           /\ c["created_timestamp"] < b["created_timestamp"]
           /\ \A f \in Range(fv.features) : o[OutCol(fv, f)] = b[OutCol(fv, f)]

(* C5 -- Exactly one cleaned row: every EntityRowUniqueId with a candidate  *)
(* has exactly one row in <view>__cleaned, and the output has as many rows  *)
(* as the entity frame.                                                     *)
C5_ExactlyOneCleaned ==
    Returned =>
        /\ \A fv \in Views :
               LET base == views[BaseName(fv)]
               IN \A id \in {b[IdCol(fv)] : b \in base} :
                      Cardinality(RowsOf(Cleaned(fv, base), fv, id)) = 1
        /\ Len(result.rows) = Len(entity_df)

NoMatch(fv, e) ==
    ~ \E n \in 1..Len(source) : SameKeys(fv, source[n], e) /\ InWindow(fv, source[n], e)

RowsFor(rows, e) ==
    {i \in 1..Len(rows) : Project(rows[i], Range(EntityDfColumns)) = e}

(* C6 -- Left-join completeness: an entity row with no source row inside    *)
(* view V's window is in the output once, with null for V's features and    *)
(* with the other views' features it gets in a retrieval without V.         *)
C6_LeftJoinCompleteness ==
    Returned =>
        \A fv \in Views : \A e \in Range(entity_df) :
            NoMatch(fv, e) =>
                LET others == SelectSeq(feature_views, LAMBDA v : v # fv)
                    alone == RunQuery(entity_df, source, others, full_feature_names)
                IN /\ Cardinality(RowsFor(result.rows, e)) = Cardinality(RowsFor(entity_df, e))
                   /\ \A i \in RowsFor(result.rows, e) : \A f \in Range(fv.features) :
                          result.rows[i][OutCol(fv, f)] = NULL
                   /\ {Project(result.rows[i], Range(alone.columns)) :
                          i \in RowsFor(result.rows, e)}
                      = {alone.rows[i] : i \in RowsFor(alone.rows, e)}

(* C8 -- Re-materialization is safe: whatever materializations of the job   *)
(* came before, finished or failed at any statement, to_spark_df returns    *)
(* the rows of a first clean materialization.                               *)
C8_RematerializationSafe ==
    Returned => result = RunQuery(entity_df, source, feature_views, full_feature_names)

C8_Witness ==
    /\ Returned
    /\ prev = "failed"
    /\ BaseName(feature_views[1]) \in DOMAIN views
    /\ \E o \in OutputRows : \A fv \in Views : \A f \in Range(fv.features) :
           o[OutCol(fv, f)] # NULL

(* C9 -- Construction is pure planning: get_historical_features leaves the  *)
(* session's relations and configuration as they were.                      *)
C9_ConstructionIsPure ==
    [][GetHistoricalFeatures => (views' = views /\ conf' = conf)]_vars

(* C9, amended -- get_historical_features changes the session only by       *)
(* registering the entity frame under the job's table name and by setting   *)
(* quotedRegexColumnNames to true (starting a session if none is active);   *)
(* it runs no statement of the query.  A materialization leaves the         *)
(* configuration and the uploaded frame alone and only creates or replaces  *)
(* entity_dataframe and the <view>__base views.                             *)
C9_ConstructionEffects ==
    [][/\ GetHistoricalFeatures =>
              /\ DOMAIN views' = DOMAIN views \cup {TableName}
              /\ views'[TableName] = entity_df
              /\ \A n \in DOMAIN views \ {TableName} : views'[n] = views[n]
              /\ conf'.active
              /\ conf'.settings[QuotedRegexKey] = "true"
              /\ conf.active =>
                     \A k \in DOMAIN conf.settings \ {QuotedRegexKey} :
                         conf'.settings[k] = conf.settings[k]
              /\ result' = result
       /\ ~GetHistoricalFeatures =>
              /\ conf' = conf
              /\ DOMAIN views \subseteq DOMAIN views'
              /\ TableName \in DOMAIN views => views'[TableName] = views[TableName]
              /\ DOMAIN views' \subseteq
                     DOMAIN views \cup {EntityDataframeName}
                                  \cup {BaseName(fv) : fv \in Views}
      ]_vars

C9_Witness ==
    /\ pc = "planned"
    /\ prev = "none"
    /\ views = (TableName :> entity_df)
    /\ entity_df # <<>>
    /\ conf.active
    /\ conf.settings[QuotedRegexKey] = "true"

(* C10 -- Naming and projection: the output's columns are the entity        *)
(* frame's columns and then one column per feature of every view, named     *)
(* "V__f" with full_feature_names and "f" without; entity_timestamp and the *)
(* <view>__entity_row_unique_id columns are not in the output.              *)
C10_OutputColumns ==
    Returned =>
        /\ result.columns =
               EntityDfColumns
               \o Flatten([j \in 1..Len(feature_views) |->
                      [i \in 1..Len(feature_views[j].features) |->
                          IF full_feature_names
                          THEN feature_views[j].name \o "__" \o feature_views[j].features[i]
                          ELSE feature_views[j].features[i]]])
        /\ \A o \in OutputRows : DOMAIN o = Range(result.columns)
        /\ "entity_timestamp" \notin Range(result.columns)
        /\ \A fv \in Views :
               (fv.name \o "__entity_row_unique_id") \notin Range(result.columns)

C10_Witness ==
    /\ Returned
    /\ full_feature_names
    /\ result.columns = <<"k1", "k2", "event_timestamp", "A__val", "B__amt">>
    /\ \E o \in OutputRows : o["A__val"] # NULL /\ o["B__amt"] # NULL


(* The exact per-row range join of every source row, with no prefilter. *)
UnfilteredRangeJoin(fv) ==
    LET edf == views[EntityDataframeName]
    IN {SubqueryRow(fv, source[n], full_feature_names)
            @@ ("entity_timestamp" :> e["entity_timestamp"])
            @@ (IdCol(fv) :> e[IdCol(fv)]) :
          <<n, e>> \in {q \in (1..Len(source)) \X FvEntityDataframe(fv, edf) :
              /\ SameKeys(fv, source[q[1]], q[2])
              /\ source[q[1]][fv.event_timestamp_column] <= q[2]["entity_timestamp"]
              /\ fv.ttl > 0 =>
                     source[q[1]][fv.event_timestamp_column]
                         >= q[2]["entity_timestamp"] - fv.ttl}}

(* C12 -- The prefilter is an optimization only: the rows of <view>__base   *)
(* are the rows the exact per-row range join gives on the unfiltered        *)
(* source; the global bound removes no source row that some entity row      *)
(* accepts.                                                                 *)
C12_PrefilterIsOptimization ==
    pc \in {"after2", "done"} =>
        \A fv \in Views : views[BaseName(fv)] = UnfilteredRangeJoin(fv)

C12_Witness ==
    /\ pc = "after2"
    /\ \E fv \in Views :
           /\ fv.ttl > 0
           /\ views[BaseName(fv)] # {}
           /\ \E n, m \in 1..Len(source) :
                  /\ ~Prefilter(fv, source[n][fv.event_timestamp_column],
                                views[EntityDataframeName])
                  /\ source[m][fv.event_timestamp_column]
                         > Min({e[EntityDfEventTimestampCol] : e \in Range(entity_df)})

(* C11 -- No cross-retrieval state: of two retrievals built on the same     *)
(* session from different entity frames and the same feature views, under   *)
(* every interleaving of their statements, each one returns the rows it     *)
(* returns when it is materialized alone.                                   *)
C11_NoCrossRetrievalState ==
    /\ Returned =>
           result = RunQuery(entity_df, source, feature_views, full_feature_names)
    /\ job2.pc = "done" =>
           job2.result = RunQuery(job2.entity_df, source, feature_views,
                                  full_feature_names)

====
